---- MODULE Spec2Model ----
(***************************************************************************)
(* roosterjs editor core: getSelectionRangeEx (selection resolution) and   *)
(* transformColor (light/dark colour transformation of a DOM subtree); and *)
(* the sample site's Editor component, which exposes its editor globally.  *)
(*                                                                         *)
(* Four specifications share this module:                                  *)
(*   Spec      the colour transformer acting on a small DOM tree           *)
(*   SelSpec   the selection resolver called on a changing editor core     *)
(*   HostSpec  the colour transformer with a host override and callbacks   *)
(*             that change the tree, the content and the dark mode flag    *)
(*   EditorSpec  Editor components being mounted, updated and unmounted    *)
(***************************************************************************)
EXTENDS Integers, Sequences, FiniteSets, TLC

VARIABLES
    dom,          \* element -> its inline styles, colour attributes and dataset
    dom0,         \* the content as it was loaded (never changes)
    parent,       \* the tree: node -> parent node, or Null when detached
    isDarkMode,   \* core.lifecycle.isDarkMode
    onExternalContentTransform, \* core.lifecycle.onExternalContentTransform
    trail,        \* element -> the built-in per-element steps applied to it so far
    lastCall,     \* what the last transformColor call was given and did, in order
    lastArgs,     \* the rootNode and includeSelf of the last call a host made
    lifecycle,    \* core.lifecycle: the shadow edit fragment and its recorded paths
    hasFocus,     \* what core.api.hasFocus(core) answers
    domEvent,     \* core.domEvent: the cached selectionRange and tableSelectionRange
    liveSelection, \* the platform selection: getSelection() and its ranges
    selResult,    \* what the last getSelectionRangeEx call returned or threw
    phase,        \* Editor component -> where React has it in its lifecycle
    editor,       \* Editor component -> this.editor
    disposed,     \* the RoosterJsEditor objects dispose() was called on
    created,      \* how many RoosterJsEditor objects have been constructed
    editorInstance, \* the module's editorInstance, read by window.globalRoosterEditor
    registrant    \* the component whose componentDidMount set editorInstance

colorVars ==
    <<dom, dom0, parent, isDarkMode, onExternalContentTransform, trail, lastCall,
      lastArgs>>

selVars == <<lifecycle, hasFocus, domEvent, liveSelection, selResult>>

editorVars == <<phase, editor, disposed, created, editorInstance, registrant>>

vars == <<colorVars, selVars, editorVars>>

-----------------------------------------------------------------------------
(* JavaScript values *)

\* JS null (getAttribute of a missing attribute, a missing range)
Null == "<null>"

\* JS undefined (a dataset key that is not set)
Undefined == "<undefined>"

\* JS truthiness of a string-or-null value
Truthy(v) == v \notin {Null, Undefined, ""}

\* JS a || b
OrElse(a, b) == IF Truthy(a) THEN a ELSE b

-----------------------------------------------------------------------------
(* The colour attribute table *)

\* ColorAttributeName[0] (text colour) and [1] (background colour)
ColorAttributeName ==
    << [CssColor |-> "color", HtmlColor |-> "color",
        CssDataSet |-> "ogsc", HtmlDataSet |-> "ogac"],
       [CssColor |-> "background-color", HtmlColor |-> "bgcolor",
        CssDataSet |-> "ogsb", HtmlDataSet |-> "ogab"] >>

Channels == {1, 2}

CssNames == {ColorAttributeName[c].CssColor : c \in Channels}

HtmlNames == {ColorAttributeName[c].HtmlColor : c \in Channels}

DataKeys == {ColorAttributeName[c].CssDataSet : c \in Channels}
              \cup {ColorAttributeName[c].HtmlDataSet : c \in Channels}

-----------------------------------------------------------------------------
(* DOM primitives used by the transformer *)

\* element.style.setProperty(name, value, priority): an empty value removes it
SetProperty(element, name, value, priority) ==
    [element EXCEPT !.style[name] = value,
                    !.priority[name] = IF value = "" THEN "" ELSE priority]

\* element.setAttribute(name, value)
SetAttribute(element, name, value) == [element EXCEPT !.attr[name] = value]

\* element.removeAttribute(name)
RemoveAttribute(element, name) == [element EXCEPT !.attr[name] = Null]

\* element.dataset[key] = value
SetData(element, key, value) == [element EXCEPT !.dataset[key] = value]

\* delete element.dataset[key]
DeleteData(element, key) == [element EXCEPT !.dataset[key] = Undefined]

\* core.lifecycle.getDarkColor: the host's light colour -> dark colour map
GetDarkColor(color) == "dark(" \o color \o ")"

-----------------------------------------------------------------------------
(* The per-element steps *)

GetValueOrDefault(value, defaultValue) ==
    IF Truthy(value) /\ value # "undefined" /\ value # "null"
    THEN value
    ELSE defaultValue

\* A dark step that forgets to record the original values
TransformToLightDarkOperationNoRecord(element, cssColor, cssDataSet, htmlColor, htmlDataSet, index, computedValues) ==
    LET styleColor == element.style[cssColor]
        attrColor  == element.attr[htmlColor]
    IN  IF /\ ~Truthy(element.dataset[cssDataSet])
           /\ ~Truthy(element.dataset[htmlDataSet])
           /\ (Truthy(styleColor) \/ Truthy(attrColor))
           /\ styleColor # "inherit"
        THEN LET newColor == GetDarkColor(
                     OrElse(computedValues[index + 1], OrElse(styleColor, attrColor)))
                 e1 == SetProperty(element, cssColor, newColor, "important")
             IN  IF Truthy(attrColor)
                 THEN SetAttribute(e1, htmlColor, newColor)
                 ELSE e1
        ELSE element

\* A dark step without the test for the literal 'inherit'
TransformToLightDarkOperationNoInherit(element, cssColor, cssDataSet, htmlColor, htmlDataSet, index, computedValues) ==
    LET styleColor == element.style[cssColor]
        attrColor  == element.attr[htmlColor]
    IN  IF /\ ~Truthy(element.dataset[cssDataSet])
           /\ ~Truthy(element.dataset[htmlDataSet])
           /\ (Truthy(styleColor) \/ Truthy(attrColor))
        THEN LET newColor == GetDarkColor(
                     OrElse(computedValues[index + 1], OrElse(styleColor, attrColor)))
                 e1 == SetProperty(element, cssColor, newColor, "important")
                 e2 == SetData(e1, cssDataSet, OrElse(styleColor, ""))
             IN  IF Truthy(attrColor)
                 THEN SetData(SetAttribute(e2, htmlColor, newColor),
                              htmlDataSet, attrColor)
                 ELSE e2
        ELSE element

\* index is the 0-based index into computedValues, as in the source
TransformToLightDarkOperation(element, cssColor, cssDataSet, htmlColor, htmlDataSet, index, computedValues) ==
    LET styleColor == element.style[cssColor]
        attrColor  == element.attr[htmlColor]
    IN  IF /\ ~Truthy(element.dataset[cssDataSet])
           /\ ~Truthy(element.dataset[htmlDataSet])
           /\ (Truthy(styleColor) \/ Truthy(attrColor))
           /\ styleColor # "inherit"
        THEN LET newColor == GetDarkColor(
                     OrElse(computedValues[index + 1], OrElse(styleColor, attrColor)))
                 e1 == SetProperty(element, cssColor, newColor, "important")
                 e2 == SetData(e1, cssDataSet, OrElse(styleColor, ""))
             IN  IF Truthy(attrColor)
                 THEN SetData(SetAttribute(e2, htmlColor, newColor),
                              htmlDataSet, attrColor)
                 ELSE e2
        ELSE element

TransformToLightModeOperation(element, cssColor, cssDataSet, htmlColor, htmlDataSet) ==
    LET e1 == SetProperty(element, cssColor,
                          GetValueOrDefault(element.dataset[cssDataSet], ""), "")
        e2 == DeleteData(e1, cssDataSet)
        value == e2.dataset[htmlDataSet]
        e3 == IF Truthy(GetValueOrDefault(value, Null))
              THEN SetAttribute(e2, htmlColor, value)
              ELSE RemoveAttribute(e2, htmlColor)
    IN  DeleteData(e3, htmlDataSet)

TransformToLightMode(element) ==
    LET textColor == ColorAttributeName[1]
        backgroundColor == ColorAttributeName[2]
        e1 == IF /\ ~Truthy(element.dataset[textColor.CssDataSet])
                 /\ ~Truthy(element.dataset[textColor.HtmlDataSet])
              THEN TransformToLightModeOperation(element,
                       textColor.CssColor, textColor.CssDataSet,
                       textColor.HtmlColor, textColor.HtmlDataSet)
              ELSE element
    IN  IF /\ ~Truthy(e1.dataset[backgroundColor.CssDataSet])
           /\ ~Truthy(e1.dataset[backgroundColor.HtmlDataSet])
        THEN TransformToLightModeOperation(e1,
                 backgroundColor.CssColor, backgroundColor.CssDataSet,
                 backgroundColor.HtmlColor, backgroundColor.HtmlDataSet)
        ELSE e1

TransformToDarkMode(element, computedValues) ==
    LET textColor == ColorAttributeName[1]
        backgroundColor == ColorAttributeName[2]
        e1 == IF /\ ~Truthy(element.dataset[textColor.CssDataSet])
                 /\ ~Truthy(element.dataset[textColor.HtmlDataSet])
              THEN TransformToLightDarkOperation(element,
                       textColor.CssColor, textColor.CssDataSet,
                       textColor.HtmlColor, textColor.HtmlDataSet,
                       1, computedValues)
              ELSE element
    IN  IF /\ ~Truthy(e1.dataset[backgroundColor.CssDataSet])
           /\ ~Truthy(e1.dataset[backgroundColor.HtmlDataSet])
        THEN TransformToLightDarkOperation(e1,
                 backgroundColor.CssColor, backgroundColor.CssDataSet,
                 backgroundColor.HtmlColor, backgroundColor.HtmlDataSet,
                 0, computedValues)
        ELSE e1

-----------------------------------------------------------------------------
(* The DOM tree *)

\* Document order of the tree's nodes
DocOrder == <<"frag", "div", "span", "math", "text">>

Nodes == {DocOrder[i] : i \in DOMAIN DocOrder}

\* What safeInstanceOf tells of a node
NodeKind(n) ==
    CASE n = "frag" -> "DocumentFragment"
      [] n \in {"div", "span"} -> "HTMLElement"
      [] n = "math" -> "Element"
      [] OTHER -> "Text"

\* The nodes that have a style object and a dataset object
HtmlElements == {n \in Nodes : NodeKind(n) = "HTMLElement"}

\* frag > div > (span > text, math)
InitialParent ==
    [n \in Nodes |->
        CASE n = "div" -> "frag"
          [] n \in {"span", "math"} -> "div"
          [] n = "text" -> "span"
          [] OTHER -> Null]

RECURSIVE IsDescendant(_, _, _)
IsDescendant(tree, n, root) ==
    /\ tree[n] # Null
    /\ (tree[n] = root \/ IsDescendant(tree, tree[n], root))

\* getElementsByTagName('*') and querySelectorAll('*'): the elements below root
AllChildren(tree, root) ==
    SelectSeq(DocOrder, LAMBDA n :
        NodeKind(n) \in {"HTMLElement", "Element"} /\ IsDescendant(tree, n, root))

\* A collection that takes any element for a root, not only an HTML element
GetAllAnyElementRoot(tree, rootNode, includeSelf) ==
    IF NodeKind(rootNode) \in {"HTMLElement", "Element"}
    THEN (IF includeSelf THEN <<rootNode>> ELSE <<>>) \o AllChildren(tree, rootNode)
    ELSE IF NodeKind(rootNode) = "DocumentFragment"
    THEN AllChildren(tree, rootNode)
    ELSE <<>>

GetAll(tree, rootNode, includeSelf) ==
    IF NodeKind(rootNode) = "HTMLElement"
    THEN (IF includeSelf THEN <<rootNode>> ELSE <<>>) \o AllChildren(tree, rootNode)
    ELSE IF NodeKind(rootNode) = "DocumentFragment"
    THEN AllChildren(tree, rootNode)
    ELSE <<>>

-----------------------------------------------------------------------------
(* transformColor *)

Directions == {"LightToDark", "DarkToLight"}

\* The callback argument: null (none supplied) or a function
Callbacks == {"null", "noop"}

\* getComputedStyles(element, ['color', 'background-color']): empty values for a
\* subtree outside a document, resolved values for one inside
ComputedChoices == { <<"", "">>, <<"gray", "silver">> }

NotComputed == <<"", "">>

\* What a host's onExternalContentTransform does to an element: it writes its
\* own text colour and records nothing
ExternalContentTransform(element) == SetProperty(element, "color", "custom", "")

\* A choice that lets the host's override replace the light step as well
TransformFunctionOverrideAlways(direction, external, element, computedValues) ==
    IF Truthy(external)
    THEN ExternalContentTransform(element)
    ELSE IF direction = "DarkToLight"
    THEN TransformToLightMode(element)
    ELSE TransformToDarkMode(element, computedValues)

\* The function transformColor picks for the direction; external is
\* core.lifecycle.onExternalContentTransform
TransformFunction(direction, external, element, computedValues) ==
    IF direction = "DarkToLight"
    THEN TransformToLightMode(element)
    ELSE IF Truthy(external)
    THEN ExternalContentTransform(element)
    ELSE TransformToDarkMode(element, computedValues)

\* Which function that is: the built-in step or the host's override
StepKind(direction, external) ==
    IF direction # "DarkToLight" /\ Truthy(external) THEN "external" ELSE "transform"

\* element?.dataset && element.style
HasDatasetAndStyle(n) == n \in HtmlElements

\* elementsToTransform.forEach(...), applied to the DOM d in order
RECURSIVE ForEach(_, _, _, _, _)
ForEach(elements, d, direction, external, computedValues) ==
    IF elements = <<>>
    THEN d
    ELSE LET element == Head(elements)
             d1 == IF HasDatasetAndStyle(element)
                   THEN [d EXCEPT ![element] =
                            TransformFunction(direction, external, d[element],
                                              computedValues)]
                   ELSE d
         IN  ForEach(Tail(elements), d1, direction, external, computedValues)

CallbackEvent == [op |-> "callback", element |-> Null]

\* An invocation of the built-in per-element step
TransformEvent(element) == [op |-> "transform", element |-> element]

\* An invocation of the per-element function of the given kind
StepEvent(kind, element) == [op |-> kind, element |-> element]

\* A call that runs the callback after the per-element steps
CallLogCallbackLast(elements, callback, kind) ==
    [i \in 1..Len(SelectSeq(elements, HasDatasetAndStyle)) |->
            StepEvent(kind, SelectSeq(elements, HasDatasetAndStyle)[i])]
    \o (IF callback # "null" THEN <<CallbackEvent>> ELSE <<>>)

\* The order in which one call invokes the callback and the per-element step
CallLog(elements, callback, kind) ==
    (IF callback # "null" THEN <<CallbackEvent>> ELSE <<>>)
    \o [i \in 1..Len(SelectSeq(elements, HasDatasetAndStyle)) |->
            StepEvent(kind, SelectSeq(elements, HasDatasetAndStyle)[i])]

\* What a host's callback may do before the colours are rewritten: nothing,
\* put the span (back) under the div, take it out of the tree, give it a text
\* colour, or switch the editor's dark mode flag
HostCallbacks == {"null", "insert", "remove", "paint", "toggle"}

\* The tree as the callback leaves it
CallbackTree(callback, tree) ==
    CASE callback = "insert" -> [tree EXCEPT !["span"] = "div"]
      [] callback = "remove" -> [tree EXCEPT !["span"] = Null]
      [] OTHER -> tree

\* The content as the callback leaves it
CallbackDom(callback, d) ==
    IF callback = "paint"
    THEN [d EXCEPT !["span"] = SetProperty(d["span"], "color", "green", "")]
    ELSE d

\* core.lifecycle.isDarkMode as the callback leaves it
CallbackDarkMode(callback, flag) ==
    IF callback = "toggle" THEN ~flag ELSE flag

\* The steps applied to one element since the content was loaded: "D" a dark
\* step, "L" a light step, "DD" and "DL" a dark step and one more; any longer
\* or other history is "x"
TrailNext(t, direction) ==
    LET step == IF direction = "DarkToLight" THEN "L" ELSE "D"
    IN  IF t = "" THEN step
        ELSE IF t = "D" THEN "D" \o step
        ELSE "x"

InSeq(x, seq) == \E i \in DOMAIN seq : seq[i] = x

\* Lines 128-138: pick the per-element function, run the callback, then apply
\* the function to the elements collected before
ApplyTransform(elementsToTransform, callback, direction, computedValues) ==
    LET kind == StepKind(direction, onExternalContentTransform)
    IN  /\ dom' = ForEach(elementsToTransform, CallbackDom(callback, dom), direction,
                          onExternalContentTransform, computedValues)
        /\ parent' = CallbackTree(callback, parent)
        /\ isDarkMode' = CallbackDarkMode(callback, isDarkMode)
        /\ trail' = [e \in HtmlElements |->
                        IF ~InSeq(e, elementsToTransform) THEN trail[e]
                        ELSE IF kind = "external" \/ callback = "paint" THEN "x"
                        ELSE TrailNext(trail[e], direction)]
        /\ lastCall' = [direction |-> direction,
                        callback |-> callback,
                        computedValues |-> computedValues,
                        log |-> CallLog(elementsToTransform, callback, kind)]
        /\ UNCHANGED <<dom0, onExternalContentTransform, selVars, editorVars>>

\* A call that collects the elements whether or not dark mode is on
TransformColorAnyMode(rootNode, includeSelf, callback, direction, computedValues) ==
    ApplyTransform(GetAll(parent, rootNode, includeSelf),
                   callback, direction, computedValues)

\* A call that reads the dark mode flag and collects the elements after the
\* callback has run
TransformColorCollectLate(rootNode, includeSelf, callback, direction, computedValues) ==
    ApplyTransform(IF CallbackDarkMode(callback, isDarkMode)
                   THEN GetAll(CallbackTree(callback, parent), rootNode, includeSelf)
                   ELSE <<>>,
                   callback, direction, computedValues)

TransformColor(rootNode, includeSelf, callback, direction, computedValues) ==
    LET elementsToTransform ==
            IF isDarkMode THEN GetAll(parent, rootNode, includeSelf) ELSE <<>>
    IN  ApplyTransform(elementsToTransform, callback, direction, computedValues)

TransformLightToDark ==
    \E rootNode \in Nodes, includeSelf \in BOOLEAN, callback \in Callbacks,
       computedValues \in ComputedChoices :
        /\ TransformColor(rootNode, includeSelf, callback, "LightToDark", computedValues)
        /\ UNCHANGED lastArgs

\* The light step reads no computed style
TransformDarkToLight ==
    \E rootNode \in Nodes, includeSelf \in BOOLEAN, callback \in Callbacks :
        /\ TransformColor(rootNode, includeSelf, callback, "DarkToLight", NotComputed)
        /\ UNCHANGED lastArgs

\* A host's call into dark mode, with any callback
HostTransformLightToDark ==
    \E rootNode \in Nodes, includeSelf \in BOOLEAN, callback \in HostCallbacks :
        /\ TransformColor(rootNode, includeSelf, callback, "LightToDark", NotComputed)
        /\ lastArgs' = [rootNode |-> rootNode, includeSelf |-> includeSelf]

\* A host's call back into light mode, with any callback
HostTransformDarkToLight ==
    \E rootNode \in Nodes, includeSelf \in BOOLEAN, callback \in HostCallbacks :
        /\ TransformColor(rootNode, includeSelf, callback, "DarkToLight", NotComputed)
        /\ lastArgs' = [rootNode |-> rootNode, includeSelf |-> includeSelf]

-----------------------------------------------------------------------------
(* The content getSelectionRangeEx resolves paths against *)

\* childNodes of the nodes under contentDiv: contentDiv > (table > td1, td2), p
ChildNodes(n) ==
    CASE n = "contentDiv" -> <<"table", "p">>
      [] n = "table" -> <<"td1", "td2">>
      [] OTHER -> <<>>

ParentNode(n) ==
    CASE n \in {"table", "p"} -> "contentDiv"
      [] n \in {"td1", "td2"} -> "table"
      [] OTHER -> Null

\* A missing range (JS null)
NullRange ==
    [isNull |-> TRUE, startContainer |-> Null, endContainer |-> Null,
     collapsed |-> FALSE]

\* The node a path of 0-based child indices leads to from node, or Null
RECURSIVE ResolvePath(_, _)
ResolvePath(node, path) ==
    IF path = <<>> THEN node
    ELSE IF Head(path) + 1 \in DOMAIN ChildNodes(node)
    THEN ResolvePath(ChildNodes(node)[Head(path) + 1], Tail(path))
    ELSE Null

\* createRange(rootNode, startPath, endPath): null when a path leads nowhere
CreateRange(rootNode, start, end) ==
    LET s == ResolvePath(rootNode, start)
        e == ResolvePath(rootNode, end)
    IN  IF s # Null /\ e # Null
        THEN [isNull |-> FALSE, startContainer |-> s, endContainer |-> e,
              collapsed |-> (start = end)]
        ELSE NullRange

\* findClosestElementAncestor(node, contentDiv, 'table')
RECURSIVE FindClosestElementAncestor(_, _, _)
FindClosestElementAncestor(node, root, selector) ==
    IF node = Null \/ node = root THEN Null
    ELSE IF node = selector THEN node
    ELSE FindClosestElementAncestor(ParentNode(node), root, selector)

RECURSIVE IsUnder(_, _)
IsUnder(node, root) ==
    /\ node # Null
    /\ (node = root \/ IsUnder(ParentNode(node), root))

\* contains(contentDiv, range)
Contains(root, range) ==
    /\ ~range.isNull
    /\ IsUnder(range.startContainer, root)
    /\ IsUnder(range.endContainer, root)

-----------------------------------------------------------------------------
(* getSelectionRangeEx *)

\* A count that takes a missing range for a collapsed one
CheckAllCollapsedNullCounts(ranges) ==
    Cardinality({i \in DOMAIN ranges : ranges[i].isNull \/ ranges[i].collapsed})
        = Len(ranges)

CheckAllCollapsed(ranges) ==
    Cardinality({i \in DOMAIN ranges : ~ranges[i].isNull /\ ranges[i].collapsed})
        = Len(ranges)

\* A wrapper that drops a missing range instead of keeping it
CreateNormalSelectionExDropNull(ranges) ==
    LET kept == SelectSeq(ranges, LAMBDA r : ~r.isNull)
    IN  [type |-> "Normal", ranges |-> kept,
         areAllCollapsed |-> CheckAllCollapsed(kept),
         table |-> Undefined, coordinates |-> Undefined]

CreateNormalSelectionEx(ranges) ==
    [type |-> "Normal", ranges |-> ranges,
     areAllCollapsed |-> CheckAllCollapsed(ranges),
     table |-> Undefined, coordinates |-> Undefined]

\* The call does not return: reading startContainer of undefined or null
TypeError ==
    [type |-> "TypeError", ranges |-> <<>>, areAllCollapsed |-> FALSE,
     table |-> Undefined, coordinates |-> Undefined]

\* A missing descriptor (JS null)
NoDescriptor ==
    [type |-> "null", ranges |-> <<>>, areAllCollapsed |-> FALSE,
     table |-> Undefined, coordinates |-> Undefined]

\* The descriptor rebuilt from the shadow edit snapshot
ShadowEditSelection(core) ==
    LET shadowEditTableSelectionPath == core.lifecycle.shadowEditTableSelectionPath
        shadowEditSelectionPath == core.lifecycle.shadowEditSelectionPath
    IN  IF shadowEditTableSelectionPath.recorded
        THEN LET ranges ==
                     [i \in DOMAIN shadowEditTableSelectionPath.paths |->
                         CreateRange(core.contentDiv,
                             shadowEditTableSelectionPath.paths[i].start,
                             shadowEditTableSelectionPath.paths[i].end)]
             IN  IF ranges = <<>> \/ ranges[1].isNull
                 THEN TypeError
                 ELSE [type |-> "TableSelection",
                       ranges |-> ranges,
                       areAllCollapsed |-> CheckAllCollapsed(ranges),
                       table |-> FindClosestElementAncestor(
                                     ranges[1].startContainer,
                                     core.contentDiv, "table"),
                       coordinates |-> Null]
        ELSE CreateNormalSelectionEx(
                 << IF shadowEditSelectionPath.recorded
                    THEN CreateRange(core.contentDiv,
                             shadowEditSelectionPath.start,
                             shadowEditSelectionPath.end)
                    ELSE NullRange >>)

\* A resolver that, with focus, takes an in-container live range before the
\* cached table selection
GetSelectionRangeExLiveFirst(core) ==
    IF core.lifecycle.shadowEditFragment
    THEN ShadowEditSelection(core)
    ELSE LET selection == core.liveSelection
             tableSelectionRange == core.domEvent.tableSelectionRange
         IN  IF /\ core.hasFocus
                /\ ~selection.isNull
                /\ Len(selection.ranges) > 0
                /\ Contains(core.contentDiv, selection.ranges[1])
             THEN CreateNormalSelectionEx(<<selection.ranges[1]>>)
             ELSE IF tableSelectionRange # NoDescriptor
             THEN tableSelectionRange
             ELSE CreateNormalSelectionEx(<<core.domEvent.selectionRange>>)

\* A resolver that, with focus, takes the first live range wherever it lies
GetSelectionRangeExAnyLiveRange(core) ==
    IF core.lifecycle.shadowEditFragment
    THEN ShadowEditSelection(core)
    ELSE LET selection == core.liveSelection
             tableSelectionRange == core.domEvent.tableSelectionRange
         IN  IF core.hasFocus /\ tableSelectionRange # NoDescriptor
             THEN tableSelectionRange
             ELSE IF /\ core.hasFocus
                     /\ ~selection.isNull
                     /\ Len(selection.ranges) > 0
             THEN CreateNormalSelectionEx(<<selection.ranges[1]>>)
             ELSE IF tableSelectionRange # NoDescriptor
             THEN tableSelectionRange
             ELSE CreateNormalSelectionEx(<<core.domEvent.selectionRange>>)

\* A resolver that looks at focus and the cached table selection before the
\* shadow edit snapshot
GetSelectionRangeExFocusFirst(core) ==
    IF core.hasFocus /\ core.domEvent.tableSelectionRange # NoDescriptor
    THEN core.domEvent.tableSelectionRange
    ELSE IF core.lifecycle.shadowEditFragment
    THEN IF core.lifecycle.shadowEditTableSelectionPath.recorded
         THEN LET ranges ==
                      [i \in DOMAIN core.lifecycle.shadowEditTableSelectionPath.paths |->
                          CreateRange(core.contentDiv,
                              core.lifecycle.shadowEditTableSelectionPath.paths[i].start,
                              core.lifecycle.shadowEditTableSelectionPath.paths[i].end)]
              IN  IF ranges = <<>> \/ ranges[1].isNull
                  THEN TypeError
                  ELSE [type |-> "TableSelection",
                        ranges |-> ranges,
                        areAllCollapsed |-> CheckAllCollapsed(ranges),
                        table |-> FindClosestElementAncestor(
                                      ranges[1].startContainer,
                                      core.contentDiv, "table"),
                        coordinates |-> Null]
         ELSE CreateNormalSelectionEx(
                  << IF core.lifecycle.shadowEditSelectionPath.recorded
                     THEN CreateRange(core.contentDiv,
                              core.lifecycle.shadowEditSelectionPath.start,
                              core.lifecycle.shadowEditSelectionPath.end)
                     ELSE NullRange >>)
    ELSE CreateNormalSelectionEx(<<core.domEvent.selectionRange>>)

GetSelectionRangeEx(core) ==
    IF core.lifecycle.shadowEditFragment
    THEN LET shadowEditTableSelectionPath == core.lifecycle.shadowEditTableSelectionPath
             shadowEditSelectionPath == core.lifecycle.shadowEditSelectionPath
         IN  IF shadowEditTableSelectionPath.recorded
             THEN LET ranges ==
                          [i \in DOMAIN shadowEditTableSelectionPath.paths |->
                              CreateRange(core.contentDiv,
                                  shadowEditTableSelectionPath.paths[i].start,
                                  shadowEditTableSelectionPath.paths[i].end)]
                  IN  IF ranges = <<>> \/ ranges[1].isNull
                      THEN TypeError
                      ELSE [type |-> "TableSelection",
                            ranges |-> ranges,
                            areAllCollapsed |-> CheckAllCollapsed(ranges),
                            table |-> FindClosestElementAncestor(
                                          ranges[1].startContainer,
                                          core.contentDiv, "table"),
                            coordinates |-> Null]
             ELSE LET shadowRange ==
                          IF shadowEditSelectionPath.recorded
                          THEN CreateRange(core.contentDiv,
                                   shadowEditSelectionPath.start,
                                   shadowEditSelectionPath.end)
                          ELSE NullRange
                  IN  CreateNormalSelectionEx(<<shadowRange>>)
    ELSE LET selection == core.liveSelection
             tableSelectionRange == core.domEvent.tableSelectionRange
         IN  IF core.hasFocus /\ tableSelectionRange # NoDescriptor
             THEN tableSelectionRange
             ELSE IF /\ core.hasFocus
                     /\ ~selection.isNull
                     /\ Len(selection.ranges) > 0
                     /\ Contains(core.contentDiv, selection.ranges[1])
             THEN CreateNormalSelectionEx(<<selection.ranges[1]>>)
             ELSE IF tableSelectionRange # NoDescriptor
             THEN tableSelectionRange
             ELSE CreateNormalSelectionEx(<<core.domEvent.selectionRange>>)

-----------------------------------------------------------------------------
(* The editor core the resolver is called on *)

\* The longest recorded table selection path list
MaxPaths == 2

\* A caret in the first cell, a span over both cells, a path that leads nowhere
PathPairs ==
    { [recorded |-> TRUE, start |-> <<0, 0>>, end |-> <<0, 0>>],
      [recorded |-> TRUE, start |-> <<0, 0>>, end |-> <<0, 1>>],
      [recorded |-> TRUE, start |-> <<1>>, end |-> <<1>>],
      [recorded |-> TRUE, start |-> <<4>>, end |-> <<4>>] }

NoPath == [recorded |-> FALSE, start |-> <<>>, end |-> <<>>]

PathLists == UNION {[1..n -> PathPairs] : n \in 0..MaxPaths}

NoPathList == [recorded |-> FALSE, paths |-> <<>>]

Lifecycles ==
    { [shadowEditFragment |-> FALSE,
       shadowEditTableSelectionPath |-> NoPathList,
       shadowEditSelectionPath |-> NoPath] }
    \cup
    { [shadowEditFragment |-> TRUE,
       shadowEditTableSelectionPath |-> t,
       shadowEditSelectionPath |-> p] :
      t \in {NoPathList} \cup {[recorded |-> TRUE, paths |-> l] : l \in PathLists},
      p \in {NoPath} \cup PathPairs }

InsideRange ==
    [isNull |-> FALSE, startContainer |-> "td2", endContainer |-> "td2",
     collapsed |-> TRUE]

OutsideRange ==
    [isNull |-> FALSE, startContainer |-> "toolbar", endContainer |-> "toolbar",
     collapsed |-> TRUE]

CachedRange ==
    [isNull |-> FALSE, startContainer |-> "p", endContainer |-> "p",
     collapsed |-> FALSE]

CachedTableSelection ==
    [type |-> "TableSelection", ranges |-> <<CachedRange>>,
     areAllCollapsed |-> FALSE, table |-> "table", coordinates |-> "cells"]

\* getSelection() may give nothing, no range, or a first range in or out of contentDiv
LiveSelections ==
    { [isNull |-> TRUE, ranges |-> <<>>],
      [isNull |-> FALSE, ranges |-> <<>>],
      [isNull |-> FALSE, ranges |-> <<InsideRange>>],
      [isNull |-> FALSE, ranges |-> <<OutsideRange>>] }

DomEvents ==
    { [selectionRange |-> r, tableSelectionRange |-> t] :
      r \in {NullRange, CachedRange}, t \in {NoDescriptor, CachedTableSelection} }

\* The core as the resolver reads it
CoreOf(lc, focus, de, live) ==
    [contentDiv |-> "contentDiv", lifecycle |-> lc, hasFocus |-> focus,
     domEvent |-> de, liveSelection |-> live]

Core == CoreOf(lifecycle, hasFocus, domEvent, liveSelection)

NotCalled ==
    [type |-> "none", ranges |-> <<>>, areAllCollapsed |-> FALSE,
     table |-> Undefined, coordinates |-> Undefined]

\* The container gains or loses focus
FocusChange ==
    /\ hasFocus' = ~hasFocus
    /\ UNCHANGED <<lifecycle, domEvent, liveSelection, selResult, colorVars, editorVars>>

\* The platform selection changes
SelectionChange ==
    /\ liveSelection' \in LiveSelections \ {liveSelection}
    /\ UNCHANGED <<lifecycle, hasFocus, domEvent, selResult, colorVars, editorVars>>

\* The editor's listeners cache a range or a table selection
CacheSelection ==
    /\ domEvent' \in DomEvents \ {domEvent}
    /\ UNCHANGED <<lifecycle, hasFocus, liveSelection, selResult, colorVars, editorVars>>

\* A caller asks for the selection
CallGetSelectionRangeEx ==
    /\ selResult' = GetSelectionRangeEx(Core)
    /\ UNCHANGED <<lifecycle, hasFocus, domEvent, liveSelection, colorVars, editorVars>>

SelIdle ==
    /\ lifecycle \in {lc \in Lifecycles : ~lc.shadowEditFragment}
    /\ hasFocus = FALSE
    /\ domEvent = [selectionRange |-> NullRange, tableSelectionRange |-> NoDescriptor]
    /\ liveSelection = [isNull |-> TRUE, ranges |-> <<>>]
    /\ selResult = NotCalled

-----------------------------------------------------------------------------
(* The sample site's Editor component (Editor.tsx) *)

\* The Editor components React may have mounted at a time
Components == {"left", "right"}

\* The most RoosterJsEditor objects constructed in a run
MaxEditors == 4

\* No editor (JS null); the editors are numbered from 1 as they are constructed
NoEditor == 0

\* No component
NoComponent == "none"

\* new RoosterJsEditor(this.contentDiv, options)
NewRoosterJsEditor == created + 1

\* The updates begun (componentWillUpdate) and not yet finished
Updating == {c \in Components : phase[c] = "updating"}

\* initEditor(): construct an editor and keep it in this.editor
InitEditor(c) ==
    /\ created' = NewRoosterJsEditor
    /\ editor' = [editor EXCEPT ![c] = NewRoosterJsEditor]
    /\ UNCHANGED disposed

\* disposeEditor(): dispose this.editor and forget it
DisposeEditor(c) ==
    /\ disposed' = disposed \cup {editor[c]}
    /\ editor' = [editor EXCEPT ![c] = NoEditor]
    /\ UNCHANGED created

\* React mounts the component: constructor, render, componentDidMount
ComponentDidMount(c) ==
    /\ phase[c] = "unmounted"
    /\ created + Cardinality(Updating) < MaxEditors
    /\ phase' = [phase EXCEPT ![c] = "mounted"]
    /\ InitEditor(c)
    /\ IF editorInstance = NoEditor
       THEN /\ editorInstance' = editor'[c]
            /\ registrant' = c
       ELSE UNCHANGED <<editorInstance, registrant>>
    /\ UNCHANGED <<colorVars, selVars>>

\* React starts an update of the component (setState, new props)
ComponentWillUpdate(c) ==
    /\ phase[c] = "mounted"
    /\ created + Cardinality(Updating) < MaxEditors
    /\ phase' = [phase EXCEPT ![c] = "updating"]
    /\ DisposeEditor(c)
    /\ UNCHANGED <<editorInstance, registrant, colorVars, selVars>>

\* React finishes the update
ComponentDidUpdate(c) ==
    /\ phase[c] = "updating"
    /\ phase' = [phase EXCEPT ![c] = "mounted"]
    /\ InitEditor(c)
    /\ UNCHANGED <<editorInstance, registrant, colorVars, selVars>>

\* React unmounts the component
ComponentWillUnmount(c) ==
    /\ phase[c] = "mounted"
    /\ phase' = [phase EXCEPT ![c] = "unmounted"]
    /\ IF editorInstance = editor[c]
       THEN /\ editorInstance' = NoEditor
            /\ registrant' = NoComponent
       ELSE UNCHANGED <<editorInstance, registrant>>
    /\ DisposeEditor(c)
    /\ UNCHANGED <<colorVars, selVars>>

\* window.globalRoosterEditor
GlobalRoosterEditor == editorInstance

\* No Editor component has been mounted yet
EditorIdle ==
    /\ phase = [c \in Components |-> "unmounted"]
    /\ editor = [c \in Components |-> NoEditor]
    /\ disposed = {}
    /\ created = 0
    /\ editorInstance = NoEditor
    /\ registrant = NoComponent

-----------------------------------------------------------------------------
(* The content the editor starts with *)

StyleValues == {"", "red", "inherit"}

AttrValues == {Null, "blue"}

\* A light-mode element: inline styles and attributes, nothing recorded
ElementInits ==
    { [style |-> [n \in CssNames |->
                     IF n = "color" THEN ts ELSE bs],
       priority |-> [n \in CssNames |-> ""],
       attr |-> [n \in HtmlNames |->
                     IF n = "color" THEN ta ELSE ba],
       dataset |-> [k \in DataKeys |-> Undefined]] :
      ts \in StyleValues, bs \in StyleValues, ta \in AttrValues, ba \in AttrValues }

\* The container element carries the same colours on both channels, or none
ContainerInits ==
    { e \in ElementInits :
        /\ e.style["color"] = e.style["background-color"]
        /\ e.attr["color"] = e.attr["bgcolor"]
        /\ e.style["color"] # "inherit"
        /\ (e.style["color"] = "") = (e.attr["color"] = Null) }

NoCall == [direction |-> "none", callback |-> "null",
           computedValues |-> NotComputed, log |-> <<>>]

NoArgs == [rootNode |-> Null, includeSelf |-> FALSE]

Init ==
    /\ dom \in { d \in [HtmlElements -> ElementInits] : d["div"] \in ContainerInits }
    /\ dom0 = dom
    /\ parent = InitialParent
    /\ isDarkMode \in BOOLEAN
    /\ onExternalContentTransform = Undefined
    /\ trail = [e \in HtmlElements |-> ""]
    /\ lastCall = NoCall
    /\ lastArgs = NoArgs
    /\ SelIdle
    /\ EditorIdle

Next ==
    \/ TransformLightToDark
    \/ TransformDarkToLight

Spec == Init /\ [][Next]_vars

-----------------------------------------------------------------------------
(* The selection resolver on its own *)

\* Plain content that no transformColor call touches
ColorIdle ==
    /\ dom = [e \in HtmlElements |->
                 CHOOSE i \in ElementInits :
                     /\ \A n \in CssNames : i.style[n] = ""
                     /\ \A n \in HtmlNames : i.attr[n] = Null]
    /\ dom0 = dom
    /\ parent = InitialParent
    /\ isDarkMode = FALSE
    /\ onExternalContentTransform = Undefined
    /\ trail = [e \in HtmlElements |-> ""]
    /\ lastCall = NoCall
    /\ lastArgs = NoArgs

SelInit ==
    /\ lifecycle \in Lifecycles
    /\ hasFocus \in BOOLEAN
    /\ domEvent \in DomEvents
    /\ liveSelection \in LiveSelections
    /\ selResult = NotCalled
    /\ ColorIdle
    /\ EditorIdle

SelNext ==
    \/ FocusChange
    \/ SelectionChange
    \/ CacheSelection
    \/ CallGetSelectionRangeEx

SelSpec == SelInit /\ [][SelNext]_vars

-----------------------------------------------------------------------------
(* The Editor component on its own *)

EditorInit ==
    /\ EditorIdle
    /\ ColorIdle
    /\ SelIdle

EditorNext ==
    \/ \E c \in Components : ComponentDidMount(c)
    \/ \E c \in Components : ComponentWillUpdate(c)
    \/ \E c \in Components : ComponentDidUpdate(c)
    \/ \E c \in Components : ComponentWillUnmount(c)

EditorSpec == EditorInit /\ [][EditorNext]_vars

-----------------------------------------------------------------------------
(* The colour transformer as a host drives it *)

\* The span starts under the div, or inside the foreign (non-HTML) element
HostTrees == {InitialParent, [InitialParent EXCEPT !["span"] = "math"]}

\* Light-mode content: a coloured container, a coloured span
HostInit ==
    /\ dom \in { d \in [HtmlElements -> ElementInits] :
                    /\ d["div"] \in ContainerInits
                    /\ d["div"].style["color"] = "red"
                    /\ d["span"].style = [n \in CssNames |-> "red"]
                    /\ d["span"].attr = [n \in HtmlNames |-> "blue"] }
    /\ dom0 = dom
    /\ parent \in HostTrees
    /\ isDarkMode \in BOOLEAN
    /\ onExternalContentTransform \in {Undefined, "custom"}
    /\ trail = [e \in HtmlElements |-> ""]
    /\ lastCall = NoCall
    /\ lastArgs = NoArgs
    /\ SelIdle
    /\ EditorIdle

HostNext ==
    \/ HostTransformLightToDark
    \/ HostTransformDarkToLight

HostSpec == HostInit /\ [][HostNext]_vars

-----------------------------------------------------------------------------
(* Properties of the colour transformer, checked under Spec *)

Css(c) == ColorAttributeName[c].CssColor

Html(c) == ColorAttributeName[c].HtmlColor

CssData(c) == ColorAttributeName[c].CssDataSet

HtmlData(c) == ColorAttributeName[c].HtmlDataSet

\* Whether the call ran the per-element step on element e
Transformed(call, e) == \E i \in DOMAIN call.log : call.log[i] = TransformEvent(e)

\* Whether either data key of channel c is set on the element
KeySet(element, c) ==
    \/ element.dataset[CssData(c)] # Undefined
    \/ element.dataset[HtmlData(c)] # Undefined

\* Everything the transformer keeps for channel c of an element
ChannelState(element, c) ==
    << element.style[Css(c)], element.priority[Css(c)], element.attr[Html(c)],
       element.dataset[CssData(c)], element.dataset[HtmlData(c)] >>

\* C1: an element given a dark step and then a light step has, on both
\* channels, the inline style it was loaded with and the attribute it was
\* loaded with (no attribute when that was absent or meaningless).
RoundTripRestores ==
    \A e \in HtmlElements :
        trail[e] = "DL" =>
            \A c \in Channels :
                /\ dom[e].style[Css(c)] = dom0[e].style[Css(c)]
                /\ dom[e].attr[Html(c)] =
                       IF /\ Truthy(dom0[e].attr[Html(c)])
                          /\ dom0[e].attr[Html(c)] \notin {"undefined", "null"}
                       THEN dom0[e].attr[Html(c)]
                       ELSE Null

\* C2: a second dark step right after the first leaves the element exactly as
\* the first left it, and a dark step changes nothing of a channel that has a
\* data key set.
DarkTwiceIsDarkOnce ==
    [][ \A e \in HtmlElements :
          /\ (trail[e] = "D" /\ trail'[e] = "DD") => dom'[e] = dom[e]
          /\ \A c \in Channels :
                ( /\ lastCall'.direction = "LightToDark"
                  /\ Transformed(lastCall', e)
                  /\ KeySet(dom[e], c) )
                => ChannelState(dom'[e], c) = ChannelState(dom[e], c) ]_vars

\* An element rewritten by one dark step has been given a second dark step
DarkTwiceWitness ==
    \E e \in HtmlElements :
        /\ trail[e] = "DD"
        /\ \E c \in Channels : Truthy(dom[e].dataset[CssData(c)])
        /\ \E c \in Channels : Truthy(dom[e].dataset[HtmlData(c)])

\* C3: a channel the dark step rewrites gets getDarkColor of that channel's
\* own computed value if it is not empty, else of its inline style, else of
\* its attribute, in its inline style and (if it had one) in its attribute.
DarkColorFromOwnChannel ==
    [][ \A e \in HtmlElements : \A c \in Channels :
          ( /\ lastCall'.direction = "LightToDark"
            /\ Transformed(lastCall', e)
            /\ ~KeySet(dom[e], c)
            /\ KeySet(dom'[e], c) )
          => LET newColor == GetDarkColor(
                     OrElse(lastCall'.computedValues[c],
                            OrElse(dom[e].style[Css(c)], dom[e].attr[Html(c)])))
             IN  /\ dom'[e].style[Css(c)] = newColor
                 /\ Truthy(dom[e].attr[Html(c)]) => dom'[e].attr[Html(c)] = newColor
      ]_vars

\* C5: the light step leaves the inline style and the attribute of a channel
\* with no data key set as they were.
LightLeavesUnrecordedUnchanged ==
    [][ \A e \in HtmlElements : \A c \in Channels :
          ( /\ lastCall'.direction = "DarkToLight"
            /\ Transformed(lastCall', e)
            /\ ~KeySet(dom[e], c) )
          => /\ dom'[e].style[Css(c)] = dom[e].style[Css(c)]
             /\ dom'[e].attr[Html(c)] = dom[e].attr[Html(c)] ]_vars

\* C7: after the light step has run on an element that has data keys set (by
\* an earlier dark step), none of the four data keys is set on it.
LightRemovesDataKeys ==
    [][ \A e \in HtmlElements :
          ( /\ lastCall'.direction = "DarkToLight"
            /\ Transformed(lastCall', e)
            /\ \E k \in DataKeys : dom[e].dataset[k] # Undefined )
          => \A k \in DataKeys : dom'[e].dataset[k] = Undefined ]_vars

\* C8: the dark step changes nothing of a channel whose inline style is the
\* literal 'inherit': style, priority, attribute and both data keys stay.
InheritNeverRewritten ==
    [][ \A e \in HtmlElements : \A c \in Channels :
          ( /\ lastCall'.direction = "LightToDark"
            /\ Transformed(lastCall', e)
            /\ dom[e].style[Css(c)] = "inherit" )
          => ChannelState(dom'[e], c) = ChannelState(dom[e], c) ]_vars

\* A dark step has run, with resolved computed styles, on an element whose
\* text colour is 'inherit' and which has a colour attribute
InheritWitness ==
    \E e \in HtmlElements :
        /\ lastCall.direction = "LightToDark"
        /\ Transformed(lastCall, e)
        /\ lastCall.computedValues = <<"gray", "silver">>
        /\ trail[e] = "D"
        /\ dom[e].style["color"] = "inherit"
        /\ dom[e].attr["color"] = "blue"

\* C9: a call given a callback invokes it exactly once, whatever the direction
\* and whether or not dark mode is on, and before every per-element step of
\* that call.
CallbackOnceBeforeTransforms ==
    lastCall.callback # "null" =>
        /\ Cardinality({i \in DOMAIN lastCall.log : lastCall.log[i] = CallbackEvent}) = 1
        /\ \A i \in DOMAIN lastCall.log :
              lastCall.log[i].op = "transform" =>
                  \E j \in 1..(i - 1) : lastCall.log[j] = CallbackEvent

\* A dark-to-light call with a callback has run the step on two elements
CallbackWitness ==
    /\ lastCall.callback = "noop"
    /\ lastCall.direction = "DarkToLight"
    /\ Len(lastCall.log) = 3
    /\ lastCall.log[1] = CallbackEvent

-----------------------------------------------------------------------------
(* Properties of the colour transformer as a host drives it, checked under
   HostSpec; every step of HostSpec is one call, read before (unprimed) and
   after (primed) *)

\* The elements a call invoked its per-element function on
StepElements(call) ==
    {call.log[i].element : i \in {j \in DOMAIN call.log : call.log[j].op # "callback"}}

\* How often a call invoked the per-element function of the given kind on e
StepCount(call, kind, e) ==
    Cardinality({i \in DOMAIN call.log : call.log[i] = StepEvent(kind, e)})

\* C15: a call made while isDarkMode is false, in either direction, invokes no
\* per-element function, built-in or override, and leaves every element's
\* styles, attributes and data keys as the callback left them.
LightModeCallChangesNothing ==
    [][ ~isDarkMode =>
          /\ StepElements(lastCall') = {}
          /\ dom' = CallbackDom(lastCall'.callback, dom) ]_vars

\* A call into dark mode on the container, whose callback switched dark mode
\* on, invoked nothing and left the span and its recorded keys alone
LightModeWitness ==
    /\ lastCall.direction = "LightToDark"
    /\ lastCall.callback = "toggle"
    /\ isDarkMode
    /\ lastArgs = [rootNode |-> "div", includeSelf |-> TRUE]
    /\ parent["span"] = "div"
    /\ lastCall.log = <<CallbackEvent>>
    /\ dom["span"] = dom0["span"]

\* The elements with a style and a dataset that the call collects from the
\* state it starts in
CollectedBefore(rootNode, includeSelf) ==
    IF isDarkMode
    THEN {e \in HtmlElements : InSeq(e, GetAll(parent, rootNode, includeSelf))}
    ELSE {}

\* C16: with onExternalContentTransform present, a call into dark mode invokes
\* the override exactly once on each collected element that has a style and a
\* dataset and never the built-in dark step (no getDarkColor colour, no data
\* key written); a call into light mode does not use the override and runs
\* the built-in light step.
OverrideReplacesDarkStepOnly ==
    [][ Truthy(onExternalContentTransform) =>
          LET collected == CollectedBefore(lastArgs'.rootNode, lastArgs'.includeSelf)
              before == CallbackDom(lastCall'.callback, dom)
          IN  /\ lastCall'.direction = "LightToDark" =>
                    \A e \in HtmlElements :
                        /\ StepCount(lastCall', "external", e)
                               = IF e \in collected THEN 1 ELSE 0
                        /\ StepCount(lastCall', "transform", e) = 0
                        /\ dom'[e].dataset = before[e].dataset
                        /\ dom'[e].attr = before[e].attr
                        /\ dom'[e].priority = before[e].priority
                        /\ \A n \in CssNames :
                              dom'[e].style[n] # before[e].style[n] =>
                                  dom'[e].style[n] = "custom"
              /\ lastCall'.direction = "DarkToLight" =>
                    \A e \in HtmlElements :
                        /\ StepCount(lastCall', "external", e) = 0
                        /\ StepCount(lastCall', "transform", e)
                               = IF e \in collected THEN 1 ELSE 0
                        /\ dom'[e] = IF e \in collected
                                     THEN TransformToLightMode(before[e])
                                     ELSE before[e] ]_vars

\* A call into dark mode invoked the override on the container and the span,
\* which carry the override's colour and no data key
OverrideWitness ==
    /\ onExternalContentTransform = "custom"
    /\ lastCall.direction = "LightToDark"
    /\ lastCall.log = <<StepEvent("external", "div"), StepEvent("external", "span")>>
    /\ \A e \in HtmlElements :
          /\ dom[e].style["color"] = "custom"
          /\ dom[e].style["background-color"] = "red"
          /\ \A k \in DataKeys : dom[e].dataset[k] = Undefined

\* The nodes that are elements of any kind
IsElement(n) == NodeKind(n) \in {"HTMLElement", "Element"}

\* C17 as stated: in dark mode the per-element function is invoked on rootNode
\* if and only if it is an element and includeSelf is true, on every
\* descendant element of an element rootNode, on every element inside a
\* document fragment rootNode, and on nothing for any other rootNode.
AnyElementRootIsCollected ==
    [][ isDarkMode =>
          LET rootNode == lastArgs'.rootNode
              inside == {n \in Nodes : IsElement(n) /\ IsDescendant(parent, n, rootNode)}
          IN  StepElements(lastCall') =
                  IF IsElement(rootNode)
                  THEN (IF lastArgs'.includeSelf THEN {rootNode} ELSE {}) \cup inside
                  ELSE IF NodeKind(rootNode) = "DocumentFragment"
                  THEN inside
                  ELSE {} ]_vars

\* C17 amended: in dark mode the per-element function is invoked on rootNode
\* if and only if it is an HTML element and includeSelf is true, on every
\* descendant element with a style and a dataset of an HTML element rootNode,
\* on every such element inside a document fragment rootNode (includeSelf
\* then has no effect), and on nothing for any other rootNode, an element
\* that is not an HTML element included.
HtmlElementRootIsCollected ==
    [][ isDarkMode =>
          LET rootNode == lastArgs'.rootNode
              inside == {n \in Nodes : /\ IsElement(n)
                                       /\ HasDatasetAndStyle(n)
                                       /\ IsDescendant(parent, n, rootNode)}
          IN  StepElements(lastCall') =
                  IF NodeKind(rootNode) = "HTMLElement"
                  THEN (IF lastArgs'.includeSelf THEN {rootNode} ELSE {}) \cup inside
                  ELSE IF NodeKind(rootNode) = "DocumentFragment"
                  THEN inside
                  ELSE {} ]_vars

\* A dark mode call on the container with includeSelf has invoked the
\* per-element function on the container and on the span below it
CollectWitness ==
    /\ isDarkMode
    /\ lastCall.callback = "null"
    /\ lastArgs = [rootNode |-> "div", includeSelf |-> TRUE]
    /\ parent["span"] = "div"
    /\ StepElements(lastCall) = {"div", "span"}

\* C18: what a call transforms is settled before its callback runs: a span
\* the callback puts under rootNode is not transformed, a span the callback
\* takes out is still transformed, and a callback that switches isDarkMode
\* changes nothing of which elements are transformed.
ElementsFixedBeforeCallback ==
    [][ LET rootNode == lastArgs'.rootNode
            includeSelf == lastArgs'.includeSelf
            callback == lastCall'.callback
        IN  /\ ( /\ callback = "insert"
                 /\ parent["span"] = Null
                 /\ rootNode # "span" )
               => /\ "span" \notin StepElements(lastCall')
                  /\ dom'["span"] = dom["span"]
            /\ ( /\ callback = "remove"
                 /\ isDarkMode
                 /\ parent["span"] = "div"
                 /\ rootNode \in {"frag", "div"} )
               => /\ "span" \in StepElements(lastCall')
                  /\ parent'["span"] = Null
            /\ callback = "toggle"
               => /\ isDarkMode' # isDarkMode
                  /\ StepElements(lastCall') = CollectedBefore(rootNode, includeSelf)
      ]_vars

\* A call on the container whose callback took the span out of the tree has
\* transformed the span all the same
RemovedStillTransformedWitness ==
    /\ lastCall.callback = "remove"
    /\ lastArgs = [rootNode |-> "div", includeSelf |-> FALSE]
    /\ parent["span"] = Null
    /\ lastCall.log = <<CallbackEvent, StepEvent("transform", "span")>>

-----------------------------------------------------------------------------
(* Properties of the selection resolver, checked under SelSpec *)

\* C4: getSelectionRangeEx never throws, whatever the core holds.
ResolverNeverThrows == selResult.type # "TypeError"

\* C6: in shadow edit, the descriptor a call returned is the one every core
\* with the same lifecycle and contentDiv gives, whatever its focus, cached
\* ranges and platform selection; so it stays the answer while those change.
ShadowResultIgnoresLiveState ==
    (lifecycle.shadowEditFragment /\ selResult # NotCalled) =>
        \A focus \in BOOLEAN, de \in DomEvents, live \in LiveSelections :
            GetSelectionRangeEx(CoreOf(lifecycle, focus, de, live)) = selResult

\* A call in shadow edit returned the snapshot's range, and the container now
\* has focus, a cached table selection and a platform range inside it
ShadowWitness ==
    /\ lifecycle.shadowEditFragment
    /\ selResult.type = "Normal"
    /\ ~selResult.ranges[1].isNull
    /\ hasFocus
    /\ domEvent.tableSelectionRange = CachedTableSelection
    /\ liveSelection.ranges = <<InsideRange>>

\* C10: in shadow edit with n table selection paths recorded, the call returns
\* a table descriptor with n ranges, the i-th made from the i-th path, null
\* coordinates, the closest table around the first range's start, and
\* areAllCollapsed told from those ranges.
TablePathReconstruction ==
    ( /\ selResult # NotCalled
      /\ lifecycle.shadowEditFragment
      /\ lifecycle.shadowEditTableSelectionPath.recorded )
    => LET paths == lifecycle.shadowEditTableSelectionPath.paths
       IN  /\ selResult.type = "TableSelection"
           /\ Len(selResult.ranges) = Len(paths)
           /\ \A i \in DOMAIN paths :
                 selResult.ranges[i] =
                     CreateRange("contentDiv", paths[i].start, paths[i].end)
           /\ selResult.coordinates = Null
           /\ paths # <<>> =>
                 selResult.table = FindClosestElementAncestor(
                     selResult.ranges[1].startContainer, "contentDiv", "table")
           /\ selResult.areAllCollapsed =
                 (\A i \in DOMAIN paths :
                     ~selResult.ranges[i].isNull /\ selResult.ranges[i].collapsed)

\* The number of ranges of a sequence whose collapsed flag is true
CollapsedCount(ranges) ==
    Cardinality({i \in DOMAIN ranges : ~ranges[i].isNull /\ ranges[i].collapsed})

\* C11: a descriptor built from N ranges of which K are collapsed (a missing
\* range is not collapsed) has areAllCollapsed true exactly if K = N; so does
\* the flag computed for the ranges made from the recorded table paths, of
\* which there may be none (N = 0 gives true).
AreAllCollapsedIffEveryRangeCollapsed ==
    /\ selResult.type \in {"Normal", "TableSelection"} =>
          selResult.areAllCollapsed =
              (CollapsedCount(selResult.ranges) = Len(selResult.ranges))
    /\ ( /\ selResult # NotCalled
         /\ lifecycle.shadowEditFragment
         /\ lifecycle.shadowEditTableSelectionPath.recorded )
       => LET paths == lifecycle.shadowEditTableSelectionPath.paths
              ranges == [i \in DOMAIN paths |->
                            CreateRange("contentDiv", paths[i].start, paths[i].end)]
          IN  /\ CheckAllCollapsed(ranges) = (CollapsedCount(ranges) = Len(ranges))
              /\ ranges = <<>> => CheckAllCollapsed(ranges)
    /\ ( /\ selResult.type = "Normal"
         /\ selResult.ranges = <<NullRange>> )
       => ~selResult.areAllCollapsed

\* A call returned a table descriptor of a caret and a missing range
CollapsedWitness ==
    /\ selResult.type = "TableSelection"
    /\ Len(selResult.ranges) = 2
    /\ selResult.ranges[1].collapsed
    /\ selResult.ranges[2].isNull
    /\ ~selResult.areAllCollapsed

\* Whether this step is a call of the resolver: every other step of the
\* resolver's specification changes something the resolver reads
ResolverCalled == UNCHANGED <<lifecycle, hasFocus, domEvent, liveSelection>>

\* C12: with shadow edit off, no focus and no cached table selection, a call
\* returns a Normal descriptor whose ranges are exactly the one cached
\* domEvent.selectionRange, be it null, and whatever the platform selection.
NoFocusFallback ==
    [][ ( /\ ResolverCalled
          /\ ~lifecycle.shadowEditFragment
          /\ ~hasFocus
          /\ domEvent.tableSelectionRange = NoDescriptor )
        => /\ selResult'.type = "Normal"
           /\ selResult'.ranges = <<domEvent.selectionRange>>
           /\ selResult'.table = Undefined
           /\ selResult'.coordinates = Undefined ]_vars

\* A call without focus returned the missing cached range while the platform
\* selection holds a range inside the container
NoFocusWitness ==
    /\ ~lifecycle.shadowEditFragment
    /\ ~hasFocus
    /\ domEvent = [selectionRange |-> NullRange, tableSelectionRange |-> NoDescriptor]
    /\ liveSelection.ranges = <<InsideRange>>
    /\ selResult.type = "Normal"
    /\ selResult.ranges = <<NullRange>>

\* C13: with shadow edit off and a table selection cached, a call returns that
\* cached descriptor itself, with or without focus and whatever the platform
\* selection.
CachedTableSelectionFirst ==
    [][ ( /\ ResolverCalled
          /\ ~lifecycle.shadowEditFragment
          /\ domEvent.tableSelectionRange # NoDescriptor )
        => selResult' = domEvent.tableSelectionRange ]_vars

\* A call with focus returned the cached table selection while the platform
\* selection holds a range inside the container
CachedTableWitness ==
    /\ ~lifecycle.shadowEditFragment
    /\ hasFocus
    /\ domEvent.tableSelectionRange = CachedTableSelection
    /\ liveSelection.ranges = <<InsideRange>>
    /\ selResult = CachedTableSelection

\* C14: with shadow edit off, no cached table selection and focus, a call
\* returns the first platform range wrapped as Normal if there is one and it
\* lies within contentDiv, and the cached domEvent.selectionRange wrapped as
\* Normal otherwise.
LiveSelectionWithFocus ==
    [][ ( /\ ResolverCalled
          /\ ~lifecycle.shadowEditFragment
          /\ hasFocus
          /\ domEvent.tableSelectionRange = NoDescriptor )
        => /\ selResult'.type = "Normal"
           /\ selResult'.ranges =
                 IF /\ ~liveSelection.isNull
                    /\ Len(liveSelection.ranges) >= 1
                    /\ IsUnder(liveSelection.ranges[1].startContainer, "contentDiv")
                    /\ IsUnder(liveSelection.ranges[1].endContainer, "contentDiv")
                 THEN <<liveSelection.ranges[1]>>
                 ELSE <<domEvent.selectionRange>> ]_vars

\* A call with focus returned the cached range because the platform range
\* lies outside the container
LiveOutsideWitness ==
    /\ ~lifecycle.shadowEditFragment
    /\ hasFocus
    /\ domEvent = [selectionRange |-> CachedRange, tableSelectionRange |-> NoDescriptor]
    /\ liveSelection.ranges = <<OutsideRange>>
    /\ selResult = CreateNormalSelectionEx(<<CachedRange>>)

-----------------------------------------------------------------------------
(* Properties of the Editor component, checked under EditorSpec *)

\* C19: whenever no update is under way, window.globalRoosterEditor is null
\* or the current editor, not disposed, of a mounted component; and it is
\* null once the component that registered it is unmounted.
GlobalEditorIsActive ==
    Updating = {} =>
        /\ \/ GlobalRoosterEditor = NoEditor
           \/ /\ GlobalRoosterEditor \notin disposed
              /\ \E c \in Components :
                    /\ phase[c] = "mounted"
                    /\ editor[c] = GlobalRoosterEditor
        /\ (registrant # NoComponent /\ phase[registrant] = "unmounted")
              => GlobalRoosterEditor = NoEditor

====
